---- MODULE Spec2Model ----
(***************************************************************************)
(* Model of the executable content of the vLLM tutorial notebooks.         *)
(*                                                                         *)
(* The repository holds notebooks, Helm values files and shell snippets.   *)
(* The part modelled here is the "Testing Concurrent Requests" cell of     *)
(* vllm_tutorials/02_kv_cache_offloading.ipynb: for each n in              *)
(* concurrent_requests a ThreadPoolExecutor with n workers maps            *)
(* send_request over range(n); every send_request posts the same chat      *)
(* completion body to the serving endpoint and returns the elapsed time.   *)
(*                                                                         *)
(* The serving endpoint (vLLM + LMCache behind the Helm release) is not    *)
(* part of the repository.  It appears here only as the environment that   *)
(* answers a posted request after some latency, or fails the connection.   *)
(* No block store, cache directory, tier migrator, router or remote cache  *)
(* client is defined anywhere in the sources, so none is modelled.         *)
(*                                                                         *)
(* Further parts, each with its own specification over the same variables  *)
(* (the variables of the parts that are not running stay parked):          *)
(*   SetupSpec      setup_microk8s.sh, statement by statement              *)
(*   BenchSpec      run_benchmark of benchmark.py (vllm_prod_stack.ipynb)   *)
(*   TutorialSpec   the code cells of notebooks 00, 01, 02, 03 in order      *)
(*   ProdStackSpec  the code cells of vllm_prod_stack.ipynb                  *)
(***************************************************************************)
EXTENDS Integers, Sequences, FiniteSets, TLC

\* concurrent_requests = [1, 2, 4, 8]
concurrent_requests == <<1, 2, 4, 8>>

\* Largest elapsed time (in whole clock ticks) the environment may take to
\* answer one request.
MaxLatency == 2

Latencies == 1..MaxLatency

\* The widest pool the cell creates: max(concurrent_requests).
MaxWorkers == 8

Workers == 1..MaxWorkers

VARIABLES
    batch,            \* index into concurrent_requests of the running loop pass
    pc,               \* per worker: position inside send_request
    batch_latencies,  \* per worker: value returned by send_request (0: none yet)
    latencies,        \* list of avg_latency values appended so far
    cell              \* state of the notebook cell as a whole

\* Variables of the concurrent-requests cell.
concVars == <<batch, pc, batch_latencies, latencies, cell>>

VARIABLES
    sh_pc,            \* setup_microk8s.sh: line of the next statement (0: no process)
    status,           \* setup_microk8s.sh: $?
    rc,               \* exit status each command line returned (-1: not run)
    stdout,           \* lines the script has printed
    exitCode,         \* exit status of the script process (-1: none yet)
    execd,            \* TRUE once `exec sg` has replaced the shell
    hasNvidia,        \* command -v nvidia-smi finds the command
    inGroup           \* `groups` of the calling session lists microk8s

\* Variables of setup_microk8s.sh.
shVars == <<sh_pc, status, rc, stdout, exitCode, execd, hasNvidia, inGroup>>

VARIABLES
    bm_pc,            \* run_benchmark: "loop", "posted", "done", "raised"
    num_requests,     \* run_benchmark: its argument
    bm_i,             \* run_benchmark: loop passes completed
    sent,             \* requests.post calls issued so far
    responses,        \* responses received so far, in order
    times,            \* run_benchmark: times
    report            \* what run_benchmark printed after the loop

\* Variables of run_benchmark.
bmVars == <<bm_pc, num_requests, bm_i, sent, responses, times, report>>

VARIABLES
    hl_run,           \* which notebooks are being executed ("": none)
    hl_ip,            \* index of the next code cell to execute
    release,          \* values file of the installed Helm release vllm ("": none)
    helmLog,          \* the helm install/uninstall commands issued so far
    envFailed,        \* some command failed for a reason outside the notebooks
    reqNoRelease      \* a request was sent to the API while no release existed

\* Variables of the notebook runs.
hlVars == <<hl_run, hl_ip, release, helmLog, envFailed, reqNoRelease>>

vars == <<concVars, shVars, bmVars, hlVars>>

\* The parts that are not a notebook run keep their state.
HelmFrame == UNCHANGED <<concVars, shVars, bmVars>>

\* The parts that are not the concurrent-requests cell keep their state.
ConcFrame == UNCHANGED <<shVars, bmVars, hlVars>>

\* The parts that are not setup_microk8s.sh keep their state.
SetupFrame == UNCHANGED <<concVars, bmVars, hlVars>>

\* The parts that are not run_benchmark keep their state.
BenchFrame == UNCHANGED <<concVars, shVars, hlVars>>

\* Largest exit status a failing command is given here (a real one is at
\* most 255; the script only tests $? against 0).
MaxExitCode == 2

ExitCodes == 0..MaxExitCode

\* Lines of setup_microk8s.sh (numbered as in the 00 notebook's writefile
\* cell) that run an external command.
CmdLines == {170, 176, 181, 186, 187, 188, 193, 198, 203, 208, 209, 210,
             217, 218, 220, 222, 227, 228, 230, 232}

\* No setup_microk8s.sh process exists.
ShParked ==
    /\ sh_pc = 0
    /\ status = 0
    /\ rc = [l \in CmdLines |-> -1]
    /\ stdout = {}
    /\ exitCode = -1
    /\ execd = FALSE
    /\ hasNvidia = FALSE
    /\ inGroup = FALSE

\* The report of a run_benchmark that has printed nothing after its loop.
NoReport == [results |-> <<>>, stdev |-> <<>>, plot |-> "", none |-> FALSE]

\* benchmark.py is not being run.
BmParked ==
    /\ bm_pc = "parked"
    /\ num_requests = 0
    /\ bm_i = 0
    /\ sent = 0
    /\ responses = <<>>
    /\ times = <<>>
    /\ report = NoReport

\* No notebook is being executed.
HlParked ==
    /\ hl_run = ""
    /\ hl_ip = 1
    /\ release = ""
    /\ helmLog = <<>>
    /\ envFailed = FALSE
    /\ reqNoRelease = FALSE

\* The concurrent-requests cell is not being run.
ConcParked ==
    /\ batch = 1
    /\ pc = [w \in Workers |-> "unused"]
    /\ batch_latencies = [w \in Workers |-> 0]
    /\ latencies = <<>>
    /\ cell = "parked"

\* n_requests of the running loop pass.
n_requests == concurrent_requests[batch]

\* range(n_requests), shifted to 1-based worker ids.
ActiveWorkers == 1..n_requests

RECURSIVE SumTo(_, _)
\* sum(batch_latencies[1..k])
SumTo(f, k) == IF k = 0 THEN 0 ELSE f[k] + SumTo(f, k - 1)

\* statistics.mean(batch_latencies), kept exact as numerator and denominator.
mean(f, n) == [sum |-> SumTo(f, n), n |-> n]

\* State of the pool right after `with ThreadPoolExecutor(max_workers=n)`
\* and executor.map have submitted one task per element of range(n).
FreshPc(n) == [w \in Workers |-> IF w <= n THEN "queued" ELSE "unused"]

NoLatencies == [w \in Workers |-> 0]

Init ==
    /\ batch = 1
    /\ pc = FreshPc(concurrent_requests[1])
    /\ batch_latencies = NoLatencies
    /\ latencies = <<>>
    /\ cell = "running"
    /\ ShParked
    /\ BmParked
    /\ HlParked

\* A pool thread picks up its task, takes start_time and issues
\* requests.post(url, headers=headers, json=data).
Post(w) ==
    /\ cell = "running"
    /\ w \in ActiveWorkers
    /\ pc[w] = "queued"
    /\ pc' = [pc EXCEPT ![w] = "posted"]
    /\ UNCHANGED <<batch, batch_latencies, latencies, cell>>

\* requests.post returns (whatever the status code: send_request of this
\* notebook never looks at response.status_code); end_time is taken and
\* end_time - start_time is returned.
Return(w) ==
    /\ cell = "running"
    /\ w \in ActiveWorkers
    /\ pc[w] = "posted"
    /\ \E l \in Latencies :
          batch_latencies' = [batch_latencies EXCEPT ![w] = l]
    /\ pc' = [pc EXCEPT ![w] = "returned"]
    /\ UNCHANGED <<batch, latencies, cell>>

\* requests.post raises (connection refused, reset, ...).  Nothing in the cell
\* catches it: list(executor.map(...)) re-raises and the cell stops.
Raise(w) ==
    /\ cell = "running"
    /\ w \in ActiveWorkers
    /\ pc[w] = "posted"
    /\ pc' = [pc EXCEPT ![w] = "raised"]
    /\ cell' = "aborted"
    /\ UNCHANGED <<batch, batch_latencies, latencies>>

\* list(executor.map(...)) has every result: the with-block ends, avg_latency
\* is appended to latencies and the for loop moves to the next n_requests, or
\* falls through to the plot after the last one.
FinishBatch ==
    /\ cell = "running"
    /\ \A w \in ActiveWorkers : pc[w] = "returned"
    /\ latencies' = Append(latencies, mean(batch_latencies, n_requests))
    /\ IF batch < Len(concurrent_requests)
         THEN /\ batch' = batch + 1
              /\ pc' = FreshPc(concurrent_requests[batch + 1])
              /\ batch_latencies' = NoLatencies
              /\ cell' = cell
         ELSE /\ cell' = "plotted"
              /\ UNCHANGED <<batch, pc, batch_latencies>>

Next ==
    \/ (\E w \in Workers : Post(w)) /\ ConcFrame
    \/ (\E w \in Workers : Return(w)) /\ ConcFrame
    \/ (\E w \in Workers : Raise(w)) /\ ConcFrame
    \/ FinishBatch /\ ConcFrame

Spec == Init /\ [][Next]_vars

TypeOK ==
    /\ batch \in 1..Len(concurrent_requests)
    /\ pc \in [Workers -> {"unused", "queued", "posted", "returned", "raised"}]
    /\ batch_latencies \in [Workers -> 0..MaxLatency]
    /\ cell \in {"running", "aborted", "plotted"}

(***************************************************************************)
(* setup_microk8s.sh                                                       *)
(***************************************************************************)

\* Lines that are an echo.
EchoLines == {166, 168, 175, 180, 185, 192, 197, 202, 207, 213,
              216, 219, 221, 223, 226, 229, 231, 235}

\* Lines that call check_status, with the argument of the call.
CheckLines == {171, 177, 182, 189, 194, 199, 204}

CheckArg(l) ==
    CASE l = 171 -> "nvidia-smi"
      [] l = 177 -> "MicroK8s installation"
      [] l = 182 -> "Adding user to microk8s group"
      [] l = 189 -> "Setting up .kube directory"
      [] l = 194 -> "MicroK8s ready check"
      [] l = 199 -> "Enabling MicroK8s addons"
      [] l = 204 -> "Final MicroK8s status check"

\* What each echo prints.
EchoText(l) ==
    CASE l = 166 -> "Checking NVIDIA GPU..."
      [] l = 168 -> "Warning: nvidia-smi not found. GPU support may not be available."
      [] l = 175 -> "Installing MicroK8s..."
      [] l = 180 -> "Adding user to microk8s group..."
      [] l = 185 -> "Setting up .kube directory..."
      [] l = 192 -> "Waiting for MicroK8s to be ready..."
      [] l = 197 -> "Enabling GPU and hostpath-storage..."
      [] l = 202 -> "Checking final MicroK8s status..."
      [] l = 207 -> "Setting up Helm repositories..."
      [] l = 213 -> "Activating microk8s group membership..."
      [] l \in {216, 226} -> "Testing cluster access..."
      [] l \in {219, 229} -> "Creating example nginx deployment..."
      [] l \in {221, 231} -> "Checking pods..."
      [] l = 223 -> "The kubectl and helm aliases are now active globally."
      [] l = 235 -> "Setup of MicroK8s is complete!"

\* echo "Error: $1 failed" inside check_status.
ErrorText(arg) ==
    CASE arg = "nvidia-smi" -> "Error: nvidia-smi failed"
      [] arg = "MicroK8s installation" -> "Error: MicroK8s installation failed"
      [] arg = "Adding user to microk8s group" -> "Error: Adding user to microk8s group failed"
      [] arg = "Setting up .kube directory" -> "Error: Setting up .kube directory failed"
      [] arg = "MicroK8s ready check" -> "Error: MicroK8s ready check failed"
      [] arg = "Enabling MicroK8s addons" -> "Error: Enabling MicroK8s addons failed"
      [] arg = "Final MicroK8s status check" -> "Error: Final MicroK8s status check failed"

\* Every line holding a statement: echoes, commands, check_status calls, the
\* two if tests (167, 214) and the exec (215).
StmtLines == EchoLines \cup CmdLines \cup CheckLines \cup {167, 214, 215}

\* The statement that textually follows line l.
After(l) == CHOOSE m \in StmtLines : m > l /\ \A k \in StmtLines : k > l => m <= k

\* The statement run after the one at line l completes (0: the process ends).
\* 168 is the last line of the then-branch of the nvidia-smi test, 232 the
\* last of the else-branch of the groups test; 223 is the last command of the
\* string handed to sg, after which the process that replaced the shell ends;
\* 235 is the last line of the script.
NextLine(l) ==
    CASE l = 168 -> 175
      [] l = 223 -> 0
      [] l = 232 -> 235
      [] l = 235 -> 0
      [] OTHER -> After(l)

\* Move to the statement after sh_pc; when there is none the process ends with
\* the exit status st of its last command.
Advance(st) ==
    /\ sh_pc' = NextLine(sh_pc)
    /\ status' = st
    /\ exitCode' = IF NextLine(sh_pc) = 0 THEN st ELSE exitCode

\* !./setup_microk8s.sh starts the script on some machine and session.
SetupInit ==
    /\ ConcParked
    /\ BmParked
    /\ HlParked
    /\ sh_pc = 166
    /\ status = 0
    /\ rc = [l \in CmdLines |-> -1]
    /\ stdout = {}
    /\ exitCode = -1
    /\ execd = FALSE
    /\ hasNvidia \in BOOLEAN
    /\ inGroup \in BOOLEAN

\* echo "..."
ShEcho ==
    /\ sh_pc \in EchoLines
    /\ stdout' = stdout \cup {EchoText(sh_pc)}
    /\ Advance(0)
    /\ UNCHANGED <<rc, execd, hasNvidia, inGroup>>

\* An external command runs and exits with some status.  Line 208 is
\* `helm repo remove nvidia || true`, whose status is that of true.
ShCmd ==
    /\ sh_pc \in CmdLines
    /\ \E c \in ExitCodes :
          /\ rc' = [rc EXCEPT ![sh_pc] = c]
          /\ Advance(IF sh_pc = 208 THEN 0 ELSE c)
    /\ UNCHANGED <<stdout, execd, hasNvidia, inGroup>>

\* check_status without its `exit 1`: the error is printed and the script
\* goes on.
check_status_no_exit(arg) ==
    /\ stdout' = IF status # 0 THEN stdout \cup {ErrorText(arg)} ELSE stdout
    /\ Advance(0)

\* check_status "arg": if [ $? -ne 0 ]; then echo "Error: $1 failed"; exit 1; fi
check_status(arg) ==
    IF status # 0
      THEN /\ stdout' = stdout \cup {ErrorText(arg)}
           /\ sh_pc' = 0
           /\ exitCode' = 1
           /\ status' = status
      ELSE /\ Advance(0)
           /\ stdout' = stdout

ShCheckStatus ==
    /\ sh_pc \in CheckLines
    /\ check_status(CheckArg(sh_pc))
    /\ UNCHANGED <<rc, execd, hasNvidia, inGroup>>

\* if ! command_exists nvidia-smi; then ... else ... fi
ShIfNvidia ==
    /\ sh_pc = 167
    /\ sh_pc' = IF ~hasNvidia THEN 168 ELSE 170
    /\ status' = IF hasNvidia THEN 1 ELSE 0
    /\ UNCHANGED <<rc, stdout, exitCode, execd, hasNvidia, inGroup>>

\* if ! groups | grep -q microk8s; then exec sg ... else ... fi
ShIfGroups ==
    /\ sh_pc = 214
    /\ sh_pc' = IF ~inGroup THEN 215 ELSE 226
    /\ status' = IF inGroup THEN 1 ELSE 0
    /\ UNCHANGED <<rc, stdout, exitCode, execd, hasNvidia, inGroup>>

\* exec sg microk8s -c '...': the shell is replaced by sg, which runs the
\* quoted commands (lines 216-223); nothing of the script after the if is
\* left to run.  When sg cannot be executed the non-interactive shell exits.
ShExecSg ==
    /\ sh_pc = 215
    /\ \E c \in ExitCodes :
          IF c = 0
            THEN /\ execd' = TRUE
                 /\ sh_pc' = 216
                 /\ UNCHANGED <<status, exitCode>>
            ELSE /\ execd' = execd
                 /\ sh_pc' = 0
                 /\ status' = c
                 /\ exitCode' = c
    /\ UNCHANGED <<rc, stdout, hasNvidia, inGroup>>

SetupNext ==
    \/ ShEcho /\ SetupFrame
    \/ ShCmd /\ SetupFrame
    \/ ShCheckStatus /\ SetupFrame
    \/ ShIfNvidia /\ SetupFrame
    \/ ShIfGroups /\ SetupFrame
    \/ ShExecSg /\ SetupFrame

SetupSpec == SetupInit /\ [][SetupNext]_vars

\* The commands that are immediately followed by a check_status call:
\* nvidia-smi, snap install, usermod, chown of ~/.kube, microk8s status
\* --wait-ready (twice) and microk8s enable.
CheckedCmdLines == {170, 176, 181, 188, 193, 198, 203}

\* Nothing of the script after line l has run: no later command, no later echo.
NothingAfter(l) ==
    /\ \A m \in CmdLines : m > l => rc[m] = -1
    /\ \A m \in EchoLines : m > l => EchoText(m) \notin stdout

\* C28: whenever a command that is immediately followed by check_status has
\* exited non-zero, the script is either at that check_status call or has
\* ended with exit status 1 after printing "Error: <step> failed", and no
\* later command or echo of the script has run; when nvidia-smi is missing
\* the script prints the warning, does not run nvidia-smi and goes on with
\* the MicroK8s installation.
C28_CheckStatusStops ==
    /\ \A l \in CheckedCmdLines :
          rc[l] > 0 =>
             /\ sh_pc \in {After(l), 0}
             /\ NothingAfter(l)
             /\ sh_pc = 0 =>
                   /\ exitCode = 1
                   /\ ErrorText(CheckArg(After(l))) \in stdout
    /\ (~hasNvidia /\ sh_pc \notin {166, 167, 168}) =>
          /\ EchoText(168) \in stdout
          /\ rc[170] = -1
          /\ sh_pc = 175 \/ EchoText(175) \in stdout

\* C28 witness: on a machine without nvidia-smi the warning was printed, the
\* script went on, `microk8s enable` failed and the script ended with 1.
C28_Witness ==
    /\ ~hasNvidia
    /\ EchoText(168) \in stdout
    /\ rc[198] > 0
    /\ sh_pc = 0
    /\ exitCode = 1

\* C29 as claimed: a run that has ended and in which every command succeeded
\* (sg included, so the process ended with status 0) has printed
\* "Setup of MicroK8s is complete!", whichever branch the groups test took.
C29_CompletePrinted ==
    (/\ sh_pc = 0
     /\ exitCode = 0
     /\ \A l \in CmdLines : rc[l] \in {-1, 0})
    => EchoText(235) \in stdout

(***************************************************************************)
(* benchmark.py: send_request and run_benchmark                            *)
(***************************************************************************)

\* Largest num_requests tried (the __main__ block passes 5).
MaxRequests == 3

\* Largest elapsed time of one request, in clock ticks.
MaxTime == 2

BmTimes == 1..MaxTime

\* Status codes the endpoint may answer with.
StatusCodes == {200, 404, 500}

\* The times of the responses with status 200, in order of arrival.
Times200(rs) ==
    LET ok == SelectSeq(rs, LAMBDA r : r.status_code = 200)
    IN  [k \in 1..Len(ok) |-> ok[k].time]

RECURSIVE SumSq(_, _)
\* sum(x*x for x in s[1..k])
SumSq(s, k) == IF k = 0 THEN 0 ELSE s[k] * s[k] + SumSq(s, k - 1)

\* statistics.median(s), doubled so that it stays an integer: the middle
\* element, or the mean of the two middle elements, of sorted(s).
median2(s) ==
    LET srt == SortSeq(s, LAMBDA a, b : a < b)
        n == Len(s)
    IN  IF n % 2 = 1 THEN 2 * srt[(n + 1) \div 2]
                     ELSE srt[n \div 2] + srt[n \div 2 + 1]

\* min(s) and max(s)
Min(s) == CHOOSE x \in {s[k] : k \in 1..Len(s)} : \A k \in 1..Len(s) : x <= s[k]

Max(s) == CHOOSE x \in {s[k] : k \in 1..Len(s)} : \A k \in 1..Len(s) : x >= s[k]

\* statistics.stdev(s) as the sample variance it is the root of:
\* (n*sum(x^2) - sum(x)^2) / (n*(n-1)).
stdev(s) ==
    LET n == Len(s)
    IN  [num |-> n * SumSq(s, n) - SumTo(s, n) * SumTo(s, n), den |-> n * (n - 1)]

\* The four figures printed under "Benchmark Results:".
Results(s) ==
    [mean |-> mean(s, Len(s)), median2 |-> median2(s), min |-> Min(s), max |-> Max(s)]

\* python benchmark.py / a call of run_benchmark(prompt, num_requests):
\* times = [] and the loop is about to start.
BenchInit ==
    /\ ConcParked
    /\ ShParked
    /\ HlParked
    /\ bm_pc = "loop"
    /\ num_requests \in 0..MaxRequests
    /\ bm_i = 0
    /\ sent = 0
    /\ responses = <<>>
    /\ times = <<>>
    /\ report = NoReport

\* for i in range(num_requests): send_request(prompt) takes start_time and
\* calls requests.post.
BmPost ==
    /\ bm_pc = "loop"
    /\ bm_i < num_requests
    /\ sent' = sent + 1
    /\ bm_pc' = "posted"
    /\ UNCHANGED <<num_requests, bm_i, responses, times, report>>

\* A response whatever its status: its time is appended.
BmResponse_any_status ==
    /\ bm_pc = "posted"
    /\ \E sc \in StatusCodes, t \in BmTimes :
          /\ responses' = Append(responses, [status_code |-> sc, time |-> t])
          /\ times' = Append(times, t)
    /\ bm_i' = bm_i + 1
    /\ bm_pc' = "loop"
    /\ UNCHANGED <<num_requests, sent, report>>

\* requests.post returns a response; send_request returns its status code
\* and the elapsed time; run_benchmark appends the time only for a 200 and
\* prints "completed" or "failed with status code", then loops.
BmResponse ==
    /\ bm_pc = "posted"
    /\ \E sc \in StatusCodes, t \in BmTimes :
          /\ responses' = Append(responses, [status_code |-> sc, time |-> t])
          /\ times' = IF sc = 200 THEN Append(times, t) ELSE times
    /\ bm_i' = bm_i + 1
    /\ bm_pc' = "loop"
    /\ UNCHANGED <<num_requests, sent, report>>

\* requests.post raises (no connection to localhost:30080, reset, ...) or
\* response.json() raises on a 200 whose body is not JSON.  Neither
\* send_request nor run_benchmark catches it: the exception leaves
\* run_benchmark and the script ends with a traceback.
BmRaise ==
    /\ bm_pc = "posted"
    /\ bm_pc' = "raised"
    /\ UNCHANGED <<num_requests, bm_i, sent, responses, times, report>>

\* The part of run_benchmark after the loop, with the two tests as
\* parameters.  statistics.mean raises StatisticsError on no data and
\* statistics.stdev on fewer than two; the plot is inside try/except, so it
\* either is saved or its failure is printed.
ReportStep(doStats, doStdev) ==
    IF doStats
      THEN IF Len(times) < 1
             THEN bm_pc' = "raised" /\ report' = report
             ELSE IF doStdev /\ Len(times) < 2
                    THEN /\ bm_pc' = "raised"
                         /\ report' = [report EXCEPT !.results = <<Results(times)>>]
                    ELSE /\ bm_pc' = "done"
                         /\ \E plot \in {"saved", "failed"} :
                               report' = [results |-> <<Results(times)>>,
                                          stdev |-> IF doStdev THEN <<stdev(times)>> ELSE <<>>,
                                          plot |-> plot,
                                          none |-> FALSE]
      ELSE /\ bm_pc' = "done"
           /\ report' = [report EXCEPT !.none = TRUE]

\* if times: ... if len(times) > 1: ... else: print("No successful ...")
BmReport ==
    /\ bm_pc = "loop"
    /\ bm_i = num_requests
    /\ ReportStep(times # <<>>, Len(times) > 1)
    /\ UNCHANGED <<num_requests, bm_i, sent, responses, times>>

BenchNext ==
    \/ BmPost /\ BenchFrame
    \/ BmResponse /\ BenchFrame
    \/ BmRaise /\ BenchFrame
    \/ BmReport /\ BenchFrame

BenchSpec == BenchInit /\ [][BenchNext]_vars

\* The run has ended, by returning or by an exception.
BmEnded == bm_pc \in {"done", "raised"}

\* C30 as claimed: a run that has ended sent exactly num_requests requests,
\* and one that ended without a successful request printed "No successful
\* requests to analyze." and raised no error.
C30_Original ==
    BmEnded =>
       /\ sent = num_requests
       /\ times = <<>> => (bm_pc = "done" /\ report.none)

\* C30 amended: requests go out one at a time, each after the response to
\* the one before; times holds exactly the times of the 200 responses;
\* an exception leaves run_benchmark only from a request in flight (after
\* which nothing more is sent or printed); a run in which every
\* requests.post returned has sent exactly num_requests requests, printed
\* the statistics exactly when times is non-empty, the standard deviation
\* exactly when it has two entries or more, and "No successful requests to
\* analyze." exactly when it is empty.
C30_RunBenchmark ==
    /\ sent = Len(responses) + (IF bm_pc = "posted" \/ (bm_pc = "raised" /\ sent > bm_i) THEN 1 ELSE 0)
    /\ sent <= num_requests
    /\ bm_i = Len(responses)
    /\ times = Times200(responses)
    /\ bm_pc = "raised" => (sent = bm_i + 1 /\ report = NoReport)
    /\ bm_pc = "done" =>
          /\ sent = num_requests
          /\ (report.results # <<>>) <=> (times # <<>>)
          /\ (report.stdev # <<>>) <=> (Len(times) >= 2)
          /\ report.none <=> (times = <<>>)
    /\ bm_pc # "done" => report = NoReport

\* C30 witness: three requests were answered, none with 200, and the run
\* ended with the "No successful requests" line.
C30_Witness ==
    /\ bm_pc = "done"
    /\ num_requests = 3
    /\ Len(responses) = 3
    /\ times = <<>>
    /\ report.none

(***************************************************************************)
(* The notebooks as sequences of code cells, and the Helm release vllm     *)
(***************************************************************************)

\* The code cells of each notebook, top to bottom: the line in the source
\* file where the cell's code starts, and what the cell does.
\*   "sh"          shell commands other than the ones below (kubectl, nvidia-smi,
\*                 helm repo add, the port-forward, ./setup_microk8s.sh, ...)
\*   "py"          Python or %%writefile that cannot fail (time.sleep, file write)
\*   "install"     !sudo microk8s helm install vllm vllm/vllm-stack -f <values>
\*   "uninstall"   !sudo microk8s helm uninstall vllm
\*   "request"     a shell command that sends requests to the API (curl,
\*                 python benchmark.py)
\*   "py_request"  Python code in the cell that calls requests.post
\* 00_mistral_setup.ipynb
Nb00 ==
    << [nb |-> "00", line |-> 111, kind |-> "sh", values |-> ""],
       [nb |-> "00", line |-> 150, kind |-> "py", values |-> ""],
       [nb |-> "00", line |-> 251, kind |-> "sh", values |-> ""],
       [nb |-> "00", line |-> 303, kind |-> "sh", values |-> ""],
       [nb |-> "00", line |-> 507, kind |-> "py", values |-> ""],
       [nb |-> "00", line |-> 540, kind |-> "install", values |-> "mistral-config.yaml"],
       [nb |-> "00", line |-> 602, kind |-> "sh", values |-> ""],
       [nb |-> "00", line |-> 646, kind |-> "sh", values |-> ""],
       [nb |-> "00", line |-> 686, kind |-> "sh", values |-> ""],
       [nb |-> "00", line |-> 697, kind |-> "sh", values |-> ""],
       [nb |-> "00", line |-> 734, kind |-> "sh", values |-> ""],
       [nb |-> "00", line |-> 775, kind |-> "py", values |-> ""],
       [nb |-> "00", line |-> 787, kind |-> "request", values |-> ""],
       [nb |-> "00", line |-> 797, kind |-> "request", values |-> ""],
       [nb |-> "00", line |-> 822, kind |-> "request", values |-> ""] >>

\* 01_setup_vllm_production_stack.ipynb
Nb01 ==
    << [nb |-> "01", line |-> 525, kind |-> "sh", values |-> ""],
       [nb |-> "01", line |-> 543, kind |-> "py", values |-> ""],
       [nb |-> "01", line |-> 644, kind |-> "sh", values |-> ""],
       [nb |-> "01", line |-> 663, kind |-> "sh", values |-> ""],
       [nb |-> "01", line |-> 683, kind |-> "py", values |-> ""],
       [nb |-> "01", line |-> 716, kind |-> "install", values |-> "mistral-config.yaml"],
       [nb |-> "01", line |-> 732, kind |-> "sh", values |-> ""],
       [nb |-> "01", line |-> 748, kind |-> "sh", values |-> ""],
       [nb |-> "01", line |-> 768, kind |-> "sh", values |-> ""],
       [nb |-> "01", line |-> 778, kind |-> "py", values |-> ""],
       [nb |-> "01", line |-> 789, kind |-> "request", values |-> ""],
       [nb |-> "01", line |-> 799, kind |-> "request", values |-> ""],
       [nb |-> "01", line |-> 825, kind |-> "request", values |-> ""] >>

\* 02_kv_cache_offloading.ipynb
Nb02 ==
    << [nb |-> "02", line |-> 90, kind |-> "py", values |-> ""],
       [nb |-> "02", line |-> 165, kind |-> "uninstall", values |-> ""],
       [nb |-> "02", line |-> 181, kind |-> "install", values |-> "kv-offload-config.yaml"],
       [nb |-> "02", line |-> 197, kind |-> "sh", values |-> ""],
       [nb |-> "02", line |-> 213, kind |-> "sh", values |-> ""],
       [nb |-> "02", line |-> 233, kind |-> "sh", values |-> ""],
       [nb |-> "02", line |-> 243, kind |-> "py", values |-> ""],
       [nb |-> "02", line |-> 254, kind |-> "request", values |-> ""],
       [nb |-> "02", line |-> 290, kind |-> "sh", values |-> ""],
       [nb |-> "02", line |-> 300, kind |-> "sh", values |-> ""],
       [nb |-> "02", line |-> 319, kind |-> "py_request", values |-> ""] >>

\* 03_remote_shared_kv_cache.ipynb
Nb03 ==
    << [nb |-> "03", line |-> 67, kind |-> "py", values |-> ""],
       [nb |-> "03", line |-> 146, kind |-> "py", values |-> ""],
       [nb |-> "03", line |-> 192, kind |-> "sh", values |-> ""],
       [nb |-> "03", line |-> 210, kind |-> "uninstall", values |-> ""],
       [nb |-> "03", line |-> 226, kind |-> "install", values |-> "shared-kv-config.yaml"],
       [nb |-> "03", line |-> 242, kind |-> "sh", values |-> ""],
       [nb |-> "03", line |-> 258, kind |-> "sh", values |-> ""],
       [nb |-> "03", line |-> 281, kind |-> "sh", values |-> ""],
       [nb |-> "03", line |-> 291, kind |-> "py", values |-> ""],
       [nb |-> "03", line |-> 302, kind |-> "py_request", values |-> ""],
       [nb |-> "03", line |-> 374, kind |-> "py_request", values |-> ""] >>

\* The tutorial series in the order the README prescribes.
TutorialCells == Nb00 \o Nb01 \o Nb02 \o Nb03

\* vllm_prod_stack.ipynb without the uninstall that opens its section 3.
ProdStackCells_no_uninstall ==
    << [nb |-> "prod", line |-> 85, kind |-> "sh", values |-> ""],
       [nb |-> "prod", line |-> 103, kind |-> "py", values |-> ""],
       [nb |-> "prod", line |-> 204, kind |-> "sh", values |-> ""],
       [nb |-> "prod", line |-> 223, kind |-> "sh", values |-> ""],
       [nb |-> "prod", line |-> 266, kind |-> "sh", values |-> ""],
       [nb |-> "prod", line |-> 284, kind |-> "py", values |-> ""],
       [nb |-> "prod", line |-> 311, kind |-> "install", values |-> "minimal-vllm-config.yaml"],
       [nb |-> "prod", line |-> 327, kind |-> "sh", values |-> ""],
       [nb |-> "prod", line |-> 344, kind |-> "sh", values |-> ""],
       [nb |-> "prod", line |-> 354, kind |-> "py", values |-> ""],
       [nb |-> "prod", line |-> 365, kind |-> "request", values |-> ""],
       [nb |-> "prod", line |-> 375, kind |-> "request", values |-> ""],
       [nb |-> "prod", line |-> 439, kind |-> "py", values |-> ""],
       [nb |-> "prod", line |-> 476, kind |-> "install", values |-> "cpu-offloading-config.yaml"],
       [nb |-> "prod", line |-> 492, kind |-> "sh", values |-> ""],
       [nb |-> "prod", line |-> 508, kind |-> "sh", values |-> ""],
       [nb |-> "prod", line |-> 526, kind |-> "sh", values |-> ""],
       [nb |-> "prod", line |-> 536, kind |-> "py", values |-> ""],
       [nb |-> "prod", line |-> 547, kind |-> "request", values |-> ""],
       [nb |-> "prod", line |-> 557, kind |-> "request", values |-> ""],
       [nb |-> "prod", line |-> 606, kind |-> "uninstall", values |-> ""],
       [nb |-> "prod", line |-> 622, kind |-> "py", values |-> ""],
       [nb |-> "prod", line |-> 679, kind |-> "install", values |-> "remote-shared-storage-config.yaml"],
       [nb |-> "prod", line |-> 695, kind |-> "sh", values |-> ""],
       [nb |-> "prod", line |-> 711, kind |-> "sh", values |-> ""],
       [nb |-> "prod", line |-> 729, kind |-> "sh", values |-> ""],
       [nb |-> "prod", line |-> 739, kind |-> "py", values |-> ""],
       [nb |-> "prod", line |-> 750, kind |-> "request", values |-> ""],
       [nb |-> "prod", line |-> 794, kind |-> "py", values |-> ""],
       [nb |-> "prod", line |-> 879, kind |-> "request", values |-> ""],
       [nb |-> "prod", line |-> 897, kind |-> "uninstall", values |-> ""] >>

\* vllm_prod_stack.ipynb
ProdStackCells ==
    << [nb |-> "prod", line |-> 85, kind |-> "sh", values |-> ""],
       [nb |-> "prod", line |-> 103, kind |-> "py", values |-> ""],
       [nb |-> "prod", line |-> 204, kind |-> "sh", values |-> ""],
       [nb |-> "prod", line |-> 223, kind |-> "sh", values |-> ""],
       [nb |-> "prod", line |-> 266, kind |-> "sh", values |-> ""],
       [nb |-> "prod", line |-> 284, kind |-> "py", values |-> ""],
       [nb |-> "prod", line |-> 311, kind |-> "install", values |-> "minimal-vllm-config.yaml"],
       [nb |-> "prod", line |-> 327, kind |-> "sh", values |-> ""],
       [nb |-> "prod", line |-> 344, kind |-> "sh", values |-> ""],
       [nb |-> "prod", line |-> 354, kind |-> "py", values |-> ""],
       [nb |-> "prod", line |-> 365, kind |-> "request", values |-> ""],
       [nb |-> "prod", line |-> 375, kind |-> "request", values |-> ""],
       [nb |-> "prod", line |-> 423, kind |-> "uninstall", values |-> ""],
       [nb |-> "prod", line |-> 439, kind |-> "py", values |-> ""],
       [nb |-> "prod", line |-> 476, kind |-> "install", values |-> "cpu-offloading-config.yaml"],
       [nb |-> "prod", line |-> 492, kind |-> "sh", values |-> ""],
       [nb |-> "prod", line |-> 508, kind |-> "sh", values |-> ""],
       [nb |-> "prod", line |-> 526, kind |-> "sh", values |-> ""],
       [nb |-> "prod", line |-> 536, kind |-> "py", values |-> ""],
       [nb |-> "prod", line |-> 547, kind |-> "request", values |-> ""],
       [nb |-> "prod", line |-> 557, kind |-> "request", values |-> ""],
       [nb |-> "prod", line |-> 606, kind |-> "uninstall", values |-> ""],
       [nb |-> "prod", line |-> 622, kind |-> "py", values |-> ""],
       [nb |-> "prod", line |-> 679, kind |-> "install", values |-> "remote-shared-storage-config.yaml"],
       [nb |-> "prod", line |-> 695, kind |-> "sh", values |-> ""],
       [nb |-> "prod", line |-> 711, kind |-> "sh", values |-> ""],
       [nb |-> "prod", line |-> 729, kind |-> "sh", values |-> ""],
       [nb |-> "prod", line |-> 739, kind |-> "py", values |-> ""],
       [nb |-> "prod", line |-> 750, kind |-> "request", values |-> ""],
       [nb |-> "prod", line |-> 794, kind |-> "py", values |-> ""],
       [nb |-> "prod", line |-> 879, kind |-> "request", values |-> ""],
       [nb |-> "prod", line |-> 897, kind |-> "uninstall", values |-> ""] >>

\* The cells of the run in progress.
Cells == IF hl_run = "tutorials" THEN TutorialCells ELSE ProdStackCells

\* The run has executed its last cell.
HlEnded == hl_ip > Len(Cells)

\* The cell about to be executed.
Cell == Cells[hl_ip]

\* Index of the first cell of the notebook after the one cell i belongs to
\* (Len(Cells) + 1 when it is the last notebook).
NextNotebook(i) ==
    LET later == {j \in (i + 1)..Len(Cells) : Cells[j].nb # Cells[i].nb}
    IN  IF later = {} THEN Len(Cells) + 1
        ELSE CHOOSE j \in later : \A k \in later : j <= k

\* The tutorial series is started on a fresh cluster.
TutorialInit ==
    /\ ConcParked
    /\ ShParked
    /\ BmParked
    /\ hl_run = "tutorials"
    /\ hl_ip = 1
    /\ release = ""
    /\ helmLog = <<>>
    /\ envFailed = FALSE
    /\ reqNoRelease = FALSE

\* vllm_prod_stack.ipynb is started on a fresh cluster.
ProdStackInit ==
    /\ ConcParked
    /\ ShParked
    /\ BmParked
    /\ hl_run = "prod_stack"
    /\ hl_ip = 1
    /\ release = ""
    /\ helmLog = <<>>
    /\ envFailed = FALSE
    /\ reqNoRelease = FALSE

\* A shell cell: its commands succeed or fail; either way Jupyter goes on to
\* the next cell.
HlShell ==
    /\ ~HlEnded
    /\ Cell.kind = "sh"
    /\ \E ok \in BOOLEAN : envFailed' = (envFailed \/ ~ok)
    /\ hl_ip' = hl_ip + 1
    /\ UNCHANGED <<hl_run, release, helmLog, reqNoRelease>>

\* A cell that only writes a file or sleeps.
HlPython ==
    /\ ~HlEnded
    /\ Cell.kind = "py"
    /\ hl_ip' = hl_ip + 1
    /\ UNCHANGED <<hl_run, release, helmLog, envFailed, reqNoRelease>>

\* helm install vllm ...: Helm refuses a name that is in use and leaves the
\* existing release alone; otherwise the release is created, unless the
\* installation fails for an outside reason (chart repository, cluster).
HlInstall ==
    /\ ~HlEnded
    /\ Cell.kind = "install"
    /\ IF release # ""
         THEN /\ helmLog' = Append(helmLog, [cmd |-> "install", line |-> Cell.line,
                                              existed |-> TRUE, ok |-> FALSE])
              /\ UNCHANGED <<release, envFailed>>
         ELSE \E ok \in BOOLEAN :
                /\ helmLog' = Append(helmLog, [cmd |-> "install", line |-> Cell.line,
                                                existed |-> FALSE, ok |-> ok])
                /\ release' = IF ok THEN Cell.values ELSE release
                /\ envFailed' = (envFailed \/ ~ok)
    /\ hl_ip' = hl_ip + 1
    /\ UNCHANGED <<hl_run, reqNoRelease>>

\* helm uninstall vllm: fails with "release: not found" when there is none;
\* otherwise the release is removed, unless it fails for an outside reason.
HlUninstall ==
    /\ ~HlEnded
    /\ Cell.kind = "uninstall"
    /\ IF release = ""
         THEN /\ helmLog' = Append(helmLog, [cmd |-> "uninstall", line |-> Cell.line,
                                              existed |-> FALSE, ok |-> FALSE])
              /\ UNCHANGED <<release, envFailed>>
         ELSE \E ok \in BOOLEAN :
                /\ helmLog' = Append(helmLog, [cmd |-> "uninstall", line |-> Cell.line,
                                                existed |-> TRUE, ok |-> ok])
                /\ release' = IF ok THEN "" ELSE release
                /\ envFailed' = (envFailed \/ ~ok)
    /\ hl_ip' = hl_ip + 1
    /\ UNCHANGED <<hl_run, reqNoRelease>>

\* curl / python benchmark.py: requests go to the forwarded port.  The
\* command may fail (pods not ready, port-forward gone); Jupyter goes on.
HlRequest ==
    /\ ~HlEnded
    /\ Cell.kind = "request"
    /\ reqNoRelease' = (reqNoRelease \/ release = "")
    /\ \E ok \in BOOLEAN : envFailed' = (envFailed \/ (release # "" /\ ~ok))
    /\ hl_ip' = hl_ip + 1
    /\ UNCHANGED <<hl_run, release, helmLog>>

\* A Python cell calling requests.post: when the call raises, the exception
\* stops the execution of this notebook and the run goes on with the next
\* notebook of the series.
HlPyRequest ==
    /\ ~HlEnded
    /\ Cell.kind = "py_request"
    /\ reqNoRelease' = (reqNoRelease \/ release = "")
    /\ \E raised \in BOOLEAN :
          /\ envFailed' = (envFailed \/ (release # "" /\ raised))
          /\ hl_ip' = IF raised THEN NextNotebook(hl_ip) ELSE hl_ip + 1
    /\ UNCHANGED <<hl_run, release, helmLog>>

HelmNext ==
    \/ HlShell /\ HelmFrame
    \/ HlPython /\ HelmFrame
    \/ HlInstall /\ HelmFrame
    \/ HlUninstall /\ HelmFrame
    \/ HlRequest /\ HelmFrame
    \/ HlPyRequest /\ HelmFrame

TutorialSpec == TutorialInit /\ [][HelmNext]_vars

\* vllm_prod_stack.ipynb has no Python cell that sends requests.
ProdStackNext ==
    \/ HlShell /\ HelmFrame
    \/ HlPython /\ HelmFrame
    \/ HlInstall /\ HelmFrame
    \/ HlUninstall /\ HelmFrame
    \/ HlRequest /\ HelmFrame

ProdStackSpec == ProdStackInit /\ [][ProdStackNext]_vars

\* C26 as claimed: when the tutorial notebooks 00, 01, 02, 03 are executed in
\* order and nothing fails for an outside reason, every helm install vllm
\* issued so far was issued while no release vllm was installed.
C26_InstallOnlyWhenAbsent ==
    ~envFailed =>
       \A k \in 1..Len(helmLog) :
          helmLog[k].cmd = "install" => ~helmLog[k].existed

\* C27: in vllm_prod_stack.ipynb, as long as nothing has failed for an
\* outside reason, Helm has accepted every command, the commands issued
\* alternate install, uninstall, install, ... starting with an install, no
\* install was issued while the release existed, a release exists exactly
\* after an odd number of commands, no request was sent to the API while no
\* release was installed, and at the end of the notebook six commands have
\* been issued and no release is installed.
C27_ProdStackAlternates ==
    ~envFailed =>
       /\ \A k \in 1..Len(helmLog) :
             /\ helmLog[k].ok
             /\ helmLog[k].cmd = (IF k % 2 = 1 THEN "install" ELSE "uninstall")
             /\ helmLog[k].cmd = "install" => ~helmLog[k].existed
       /\ (release # "") <=> (Len(helmLog) % 2 = 1)
       /\ ~reqNoRelease
       /\ HlEnded => (release = "" /\ Len(helmLog) = 6)

\* C27 witness: the notebook has run to its end with every command
\* succeeding, after three installs and three uninstalls.
C27_Witness ==
    /\ hl_run = "prod_stack"
    /\ HlEnded
    /\ ~envFailed
    /\ Len(helmLog) = 6
    /\ release = ""
====
